---- MODULE Spec2Model ----
(***************************************************************************)
(* Model of devassistant/lang.py: the expression and control-flow layer.   *)
(*                                                                         *)
(* Python strings are modelled as sequences of one-character strings, so   *)
(* that strip, split, slicing and the for-header regular expression are    *)
(* computed character by character as the code computes them.              *)
(* Python values that may live in kwargs are tagged records (Str, Bool,    *)
(* Dict, List), all with the same fields.                                  *)
(* The state is the shared kwargs mapping together with the last call      *)
(* made on the module (its arguments) and what that call produced (its     *)
(* return value or the exception that left it).                            *)
(***************************************************************************)
EXTENDS Naturals, Sequences, FiniteSets

VARIABLES kwargs, call, ret

vars == <<kwargs, call, ret>>

(***************************************************************************)
(* Bounds of the model.                                                    *)
(***************************************************************************)
\* most keys kwargs may hold (assign_variable is not taken beyond it)
MaxKeys == 2
\* longest run of blanks used wherever a header or expression has whitespace
MaxWs == 2

(***************************************************************************)
(* Python values.                                                          *)
(***************************************************************************)
Str(s) == [t |-> "str", s |-> s, b |-> FALSE, d |-> <<>>, l |-> <<>>]

Bool(b) == [t |-> "bool", s |-> <<>>, b |-> b, d |-> <<>>, l |-> <<>>]

\* d: the mapping's (key, value) pairs in iteration order
Dict(d) == [t |-> "dict", s |-> <<>>, b |-> FALSE, d |-> d, l |-> <<>>]

List(l) == [t |-> "list", s |-> <<>>, b |-> FALSE, d |-> <<>>, l |-> l]

\* Python truthiness: bool(v)
Truthy(v) ==
    CASE v.t = "str" -> v.s # <<>>
      [] v.t = "bool" -> v.b
      [] v.t = "dict" -> v.d # <<>>
      [] OTHER -> v.l # <<>>

\* type(v) as it is formatted into a message
TypeName(v) == v.t

(***************************************************************************)
(* Python string operations.                                               *)
(***************************************************************************)
IsSpace(c) == c = " "

QuoteChars == {"\"", "'"}

BraceChars == {"{", "}"}

\* s[i-1:] in Python terms (1-based here): the suffix starting at index i
From(s, i) == IF i > Len(s) THEN <<>> ELSE SubSeq(s, i, Len(s))

\* s.startswith(p)
StartsWith(s, p) == Len(s) >= Len(p) /\ SubSeq(s, 1, Len(p)) = p

\* p occurs in s at index i
HasAt(s, i, p) == i + Len(p) - 1 <= Len(s) /\ SubSeq(s, i, i + Len(p) - 1) = p

RECURSIVE LStripChars(_, _)
LStripChars(s, cs) ==
    IF s # <<>> /\ Head(s) \in cs THEN LStripChars(Tail(s), cs) ELSE s

RECURSIVE RStripChars(_, _)
RStripChars(s, cs) ==
    IF s # <<>> /\ s[Len(s)] \in cs
    THEN RStripChars(SubSeq(s, 1, Len(s) - 1), cs)
    ELSE s

\* s.strip(chars): every leading and trailing character of the set
StripChars(s, cs) == RStripChars(LStripChars(s, cs), cs)

\* s.strip()
Strip(s) == StripChars(s, {" "})

\* s.count(c)
Count(s, c) == Cardinality({i \in 1..Len(s) : s[i] = c})

\* the index of the first occurrence of c in s at or after i, Len(s)+1 if none
RECURSIVE FindFrom(_, _, _)
FindFrom(s, c, i) ==
    IF i > Len(s) \/ s[i] = c THEN i ELSE FindFrom(s, c, i + 1)

\* s.split(c)
RECURSIVE Split(_, _)
Split(s, c) ==
    LET k == FindFrom(s, c, 1)
    IN  IF k > Len(s) THEN <<s>>
        ELSE <<SubSeq(s, 1, k - 1)>> \o Split(From(s, k + 1), c)

\* the first index at or after i that holds no blank, Len(s)+1 if none
RECURSIVE SkipWs(_, _)
SkipWs(s, i) ==
    IF i <= Len(s) /\ IsSpace(s[i]) THEN SkipWs(s, i + 1) ELSE i

\* the first index at or after i that holds a blank, Len(s)+1 if none
RECURSIVE SkipNonWs(_, _)
SkipNonWs(s, i) ==
    IF i <= Len(s) /\ ~IsSpace(s[i]) THEN SkipNonWs(s, i + 1) ELSE i

\* s.split(): the whitespace-separated tokens, in order
RECURSIVE SplitWs(_)
SplitWs(s) ==
    LET i == SkipWs(s, 1)
        j == SkipNonWs(s, i)
    IN  IF i > Len(s) THEN <<>>
        ELSE <<SubSeq(s, i, j - 1)>> \o SplitWs(From(s, j))

(***************************************************************************)
(* Outcomes of a call: a normal return carries err = "OK".                 *)
(***************************************************************************)
YamlSyntaxError == "YamlSyntaxError"

(***************************************************************************)
(* get_var_name                                                            *)
(***************************************************************************)
\* get_var_name leaving the braces of ${name} in the name
get_var_name_KeepsBraces(dolar_variable) ==
    LET name == StripChars(Strip(dolar_variable), QuoteChars)
    IN  IF ~StartsWith(name, <<"$">>)
        THEN [err |-> YamlSyntaxError,
              fmt |-> "Not a proper variable name: ",
              arg |-> dolar_variable, typ |-> "", name |-> <<>>]
        ELSE [err |-> "OK", fmt |-> "", arg |-> <<>>, typ |-> "",
              name |-> Tail(name)]

get_var_name(dolar_variable) ==
    LET name == StripChars(Strip(dolar_variable), QuoteChars)
    IN  IF ~StartsWith(name, <<"$">>)
        THEN [err |-> YamlSyntaxError,
              fmt |-> "Not a proper variable name: ",
              arg |-> dolar_variable, typ |-> "", name |-> <<>>]
        ELSE [err |-> "OK", fmt |-> "", arg |-> <<>>, typ |-> "",
              name |-> StripChars(Tail(name), BraceChars)]

(***************************************************************************)
(* evaluate                                                                *)
(***************************************************************************)
S_not == <<"n", "o", "t", " ">>

S_defined == <<"d", "e", "f", "i", "n", "e", "d", " ">>

EvalOk(success, output) ==
    [err |-> "OK", fmt |-> "", arg |-> <<>>, typ |-> "",
     logical |-> success, value |-> output]

EvalRaise(kind, fmt, arg) ==
    [err |-> kind, fmt |-> fmt, arg |-> arg, typ |-> "",
     logical |-> FALSE, value |-> Str(<<>>)]

\* the "$(...)" branch; run is what the command runner does with the command
\* line expr[2:-1]: run.ok is FALSE when it raises RunException, run.output
\* is the output it returns or the exception carries
EvalCommand(expr, env, run) == EvalOk(run.ok, Str(run.output))

\* the lookup giving the stored value of a variable that is bound but falsy
LookUp_KeepsFalsy(var_name, env) ==
    IF var_name.err # "OK"
    THEN EvalRaise(var_name.err, var_name.fmt, var_name.arg)
    ELSE IF var_name.name \in DOMAIN env
         THEN EvalOk(Truthy(env[var_name.name]), env[var_name.name])
         ELSE EvalOk(FALSE, Str(<<>>))

\* lines 179-183, var_name being the outcome of get_var_name(expr)
LookUp(var_name, env) ==
    IF var_name.err # "OK"
    THEN EvalRaise(var_name.err, var_name.fmt, var_name.arg)
    ELSE IF var_name.name \in DOMAIN env /\ Truthy(env[var_name.name])
         THEN EvalOk(TRUE, env[var_name.name])
         ELSE EvalOk(FALSE, Str(<<>>))

\* the "$foo" branch
EvalVariable(expr, env) == LookUp(get_var_name(expr), env)

\* "defined" taking a falsy value for an undefined one
LookUpDefined_Truthy(varname, env) ==
    IF varname.err # "OK"
    THEN EvalRaise(varname.err, varname.fmt, varname.arg)
    ELSE EvalOk(varname.name \in DOMAIN env /\ Truthy(env[varname.name]),
                IF varname.name \in DOMAIN env
                THEN env[varname.name] ELSE Str(<<>>))

\* lines 186-187, varname being the outcome of get_var_name(expr[8:])
LookUpDefined(varname, env) ==
    IF varname.err # "OK"
    THEN EvalRaise(varname.err, varname.fmt, varname.arg)
    ELSE EvalOk(varname.name \in DOMAIN env,
                IF varname.name \in DOMAIN env
                THEN env[varname.name] ELSE Str(<<>>))

\* the "defined $foo" branch
EvalDefined(expr, env) == LookUpDefined(get_var_name(From(expr, 9)), env)

\* the final step forgetting the invert flag
Inverted_Ignored(r, invert_success) == r

\* the result with the logical result inverted when "not " was given
Inverted(r, invert_success) ==
    IF r.err = "OK" /\ invert_success
    THEN EvalOk(~r.logical, r.value)
    ELSE r

\* lines 171-189: the forms, tried in order on expr
EvalForm(expression, expr, env, run) ==
    IF StartsWith(expr, <<"$", "(">>)
      THEN EvalCommand(expr, env, run)
    ELSE IF StartsWith(expr, <<"$">>) \/ StartsWith(expr, <<"\"", "$">>)
      THEN EvalVariable(expr, env)
    ELSE IF StartsWith(expr, S_defined)
      THEN EvalDefined(expr, env)
    ELSE EvalRaise(YamlSyntaxError, "Not a valid expression: ", expression)

\* lines 166-191 on a string: expr is expression.strip()
EvalString(expression, expr, env, run) ==
    IF StartsWith(expr, S_not)
    THEN Inverted(EvalForm(expression, From(expr, 5), env, run), TRUE)
    ELSE Inverted(EvalForm(expression, expr, env, run), FALSE)

\* expression is a Python value: a Str is parsed, anything else is returned
evaluate(expression, env, run) ==
    IF expression.t # "str"
    THEN EvalOk(Truthy(expression), expression)
    ELSE EvalString(expression.s, Strip(expression.s), env, run)

(***************************************************************************)
(* parse_for                                                               *)
(*                                                                         *)
(* The regular expression                                                  *)
(*   for\s+(\${?\S}?)(?:\s*,\s+(\${?\S}?))?\s+in\s+(\S.+)                  *)
(* is matched at the start of the header as re.match does, with the        *)
(* alternatives tried in the order the backtracking matcher tries them.    *)
(***************************************************************************)
S_for == <<"f", "o", "r">>

S_in == <<"i", "n">>

NoMatch == [ok |-> FALSE, has2 |-> FALSE, g1 |-> <<>>, g2 |-> <<>>, g3 |-> <<>>]

\* i holds a character that \S matches
NonSpaceAt(s, i) == i <= Len(s) /\ ~IsSpace(s[i])

\* \${?\S}? can match exactly n characters at index i
TokenOfLen(s, i, n) ==
    /\ i <= Len(s) /\ s[i] = "$"
    /\ CASE n = 4 -> HasAt(s, i + 1, <<"{">>) /\ NonSpaceAt(s, i + 2)
                     /\ HasAt(s, i + 3, <<"}">>)
         [] n = 3 -> \/ HasAt(s, i + 1, <<"{">>) /\ NonSpaceAt(s, i + 2)
                     \/ NonSpaceAt(s, i + 1) /\ HasAt(s, i + 2, <<"}">>)
         [] n = 2 -> NonSpaceAt(s, i + 1)
         [] OTHER -> FALSE

\* the lengths a token is tried with, longest first ({? and }? are greedy)
TokenLens == <<4, 3, 2>>

\* \s+in\s+(\S.+) at index j
MatchIn(s, j) ==
    LET p == SkipWs(s, j)
        q == SkipWs(s, p + 2)
    IN  IF /\ j <= Len(s) /\ IsSpace(s[j])
           /\ HasAt(s, p, S_in)
           /\ p + 2 <= Len(s) /\ IsSpace(s[p + 2])
           /\ q + 1 <= Len(s)
        THEN [ok |-> TRUE, g3 |-> From(s, q)]
        ELSE [ok |-> FALSE, g3 |-> <<>>]

NoSecond == [ok |-> FALSE, has2 |-> FALSE, g2 |-> <<>>, g3 |-> <<>>]

RECURSIVE MatchSecond(_, _, _)
\* the second token taken with Head(ns) characters when rest, the match of
\* what follows it, succeeds; the next length otherwise
SecondOrNext(s, m, ns, rest) ==
    IF TokenOfLen(s, m, Head(ns)) /\ rest.ok
    THEN [ok |-> TRUE, has2 |-> TRUE,
          g2 |-> SubSeq(s, m, m + Head(ns) - 1), g3 |-> rest.g3]
    ELSE MatchSecond(s, m, Tail(ns))

\* the second token at index m, tried with the lengths ns in order
MatchSecond(s, m, ns) ==
    IF ns = <<>> THEN NoSecond
    ELSE SecondOrNext(s, m, ns, MatchIn(s, m + Head(ns)))

\* the match with the optional group when it succeeded, without it otherwise
GroupOrNot(with2, without) ==
    IF with2.ok THEN with2
    ELSE [ok |-> without.ok, has2 |-> FALSE, g2 |-> <<>>, g3 |-> without.g3]

\* (?:\s*,\s+(\${?\S}?))?\s+in\s+(\S.+) at index j: the optional group is
\* tried first, then the match without it
MatchAfterFirst(s, j) ==
    LET k == SkipWs(s, j)
    IN  GroupOrNot(
          IF HasAt(s, k, <<",">>) /\ k + 1 <= Len(s) /\ IsSpace(s[k + 1])
          THEN MatchSecond(s, SkipWs(s, k + 1), TokenLens)
          ELSE NoSecond,
          MatchIn(s, j))

RECURSIVE MatchFirst(_, _, _)
\* the first token taken with Head(ns) characters when rest, the match of
\* what follows it, succeeds; the next length otherwise
FirstOrNext(s, i, ns, rest) ==
    IF TokenOfLen(s, i, Head(ns)) /\ rest.ok
    THEN [ok |-> TRUE, has2 |-> rest.has2,
          g1 |-> SubSeq(s, i, i + Head(ns) - 1), g2 |-> rest.g2, g3 |-> rest.g3]
    ELSE MatchFirst(s, i, Tail(ns))

\* the first token at index i, tried with the lengths ns in order
MatchFirst(s, i, ns) ==
    IF ns = <<>> THEN NoMatch
    ELSE FirstOrNext(s, i, ns, MatchAfterFirst(s, i + Head(ns)))

\* regex.match(control_line): ok is FALSE when it returns None
RegexMatch(control_line) ==
    IF HasAt(control_line, 1, S_for) /\ 4 <= Len(control_line)
       /\ IsSpace(control_line[4])
    THEN MatchFirst(control_line, SkipWs(control_line, 4), TokenLens)
    ELSE NoMatch

ParseOk(control_vars, expr) ==
    [err |-> "OK", fmt |-> "", arg |-> <<>>, typ |-> "",
     control_vars |-> control_vars, expr |-> expr]

ParseRaise(kind, fmt, arg) ==
    [err |-> kind, fmt |-> fmt, arg |-> arg, typ |-> "",
     control_vars |-> <<>>, expr |-> <<>>]

\* lines 24-30: the control variables, from the names of the captured tokens
ControlVars(m, v1, v2) ==
    IF v1.err # "OK" THEN ParseRaise(v1.err, v1.fmt, v1.arg)
    ELSE IF m.has2 /\ v2.err # "OK" THEN ParseRaise(v2.err, v2.fmt, v2.arg)
    ELSE ParseOk(IF m.has2 THEN <<v1.name, v2.name>> ELSE <<v1.name>>, m.g3)

\* lines 20-30, m being what regex.match returned: None.groups() raises
\* AttributeError; groups() of a match is a 3-tuple, which is never empty,
\* so the "if not res" branch is never taken
ParseGroups(m) ==
    IF ~m.ok
    THEN ParseRaise("AttributeError",
                    "'NoneType' object has no attribute 'groups'", <<>>)
    ELSE ControlVars(m, get_var_name(m.g1), get_var_name(m.g2))

parse_for(control_line) == ParseGroups(RegexMatch(control_line))

(***************************************************************************)
(* get_for_control_var_and_eval_expr                                       *)
(***************************************************************************)
ForOk(control_vars, tokens, pairs) ==
    [err |-> "OK", fmt |-> "", arg |-> <<>>, typ |-> "",
     control_vars |-> control_vars, tokens |-> tokens, pairs |-> pairs]

ForRaise(kind, fmt, arg, typ) ==
    [err |-> kind, fmt |-> fmt, arg |-> arg, typ |-> typ,
     control_vars |-> <<>>, tokens |-> <<>>, pairs |-> <<>>]

\* the two except handlers: both use the name logger, which the module
\* never binds, so the handler itself leaves with NameError before it can
\* re-raise the YamlSyntaxError e it caught
ExceptYamlSyntaxError(e) ==
    ForRaise("NameError", "name 'logger' is not defined", <<>>, "")

\* the items built only when the loop expression succeeded
IterVal_OnlyOnSuccess(control_vars, eval_logical, eval_expression) ==
    IF Len(control_vars) = 2
    THEN IF eval_expression.t # "dict"
         THEN ForRaise(YamlSyntaxError,
                       "Can't expand {t} to two control variables.", <<>>,
                       TypeName(eval_expression))
         ELSE ForOk(control_vars, <<>>, eval_expression.d)
    ELSE IF eval_expression.t = "str" /\ eval_logical
         THEN ForOk(control_vars, SplitWs(eval_expression.s), <<>>)
         ELSE ForOk(control_vars, <<>>, <<>>)

\* the items built from the evaluated value (lines 51-60); eval_logical is
\* the logical result the code drops by taking [1]
IterVal(control_vars, eval_logical, eval_expression) ==
    IF Len(control_vars) = 2
    THEN IF eval_expression.t # "dict"
         THEN ForRaise(YamlSyntaxError,
                       "Can't expand {t} to two control variables.", <<>>,
                       TypeName(eval_expression))
         ELSE ForOk(control_vars, <<>>, eval_expression.d)
    ELSE IF eval_expression.t = "str"
         THEN ForOk(control_vars, SplitWs(eval_expression.s), <<>>)
         ELSE ForOk(control_vars, <<>>, <<>>)

\* lines 45-60, e being the outcome of evaluate(expression, kwargs)
ForFromEval(p, e) ==
    IF e.err = YamlSyntaxError THEN ExceptYamlSyntaxError(e)
    ELSE IF e.err # "OK" THEN ForRaise(e.err, e.fmt, e.arg, e.typ)
    ELSE IterVal(p.control_vars, e.logical, e.value)

\* lines 40-60, p being the outcome of parse_for(comm_type)
ForFromParse(p, env, run) ==
    IF p.err = YamlSyntaxError THEN ExceptYamlSyntaxError(p)
    ELSE IF p.err # "OK" THEN ForRaise(p.err, p.fmt, p.arg, p.typ)
    ELSE ForFromEval(p, evaluate(Str(p.expr), env, run))

get_for_control_var_and_eval_expr(comm_type, env, run) ==
    ForFromParse(parse_for(comm_type), env, run)

(***************************************************************************)
(* get_section_from_condition                                              *)
(*                                                                         *)
(* A section is a pair (header, body); else_section may be None, which is  *)
(* NoSection here.  section.some = FALSE in the result stands for None.    *)
(***************************************************************************)
S_else == <<"e", "l", "s", "e">>

Section(head, body) == [some |-> TRUE, head |-> head, body |-> body]

NoSection == [some |-> FALSE, head |-> <<>>, body |-> ""]

SectionOk(idx, skip, some, body) ==
    [err |-> "OK", fmt |-> "", arg |-> <<>>, typ |-> "",
     idx |-> idx, skip |-> skip, section |-> [some |-> some, body |-> body]]

SectionRaise(kind, fmt, arg) ==
    [err |-> kind, fmt |-> fmt, arg |-> arg, typ |-> "",
     idx |-> 0, skip |-> FALSE, section |-> [some |-> FALSE, body |-> ""]]

\* any next section taken for the else
IsElse_AnyNext(else_section) == else_section.some

\* line 80
IsElse(else_section) == else_section.some /\ else_section.head = S_else

\* lines 81-84, e being the outcome of evaluate on the condition
SectionFromEval(if_section, else_section, skip, e) ==
    IF e.err # "OK" THEN SectionRaise(e.err, e.fmt, e.arg)
    ELSE IF e.logical THEN SectionOk(0, skip, TRUE, if_section.body)
    ELSE IF skip THEN SectionOk(1, skip, TRUE, else_section.body)
    ELSE SectionOk(1, skip, FALSE, "")

get_section_from_condition(if_section, else_section, env, run) ==
    SectionFromEval(if_section, else_section, IsElse(else_section),
                    evaluate(Str(Strip(From(if_section.head, 3))), env, run))

(***************************************************************************)
(* assign_variable                                                         *)
(***************************************************************************)
\* env[k] = v
Put(env, k, v) ==
    [x \in DOMAIN env \cup {k} |-> IF x = k THEN v ELSE env[x]]

AssignOk(env) == [err |-> "OK", fmt |-> "", arg |-> <<>>, typ |-> "", env |-> env]

AssignRaise(kind, fmt, arg, env) ==
    [err |-> kind, fmt |-> fmt, arg |-> arg, typ |-> "", env |-> env]

\* lines 105-106 and 109: two targets
AssignTwo(var1, var2, e, env) ==
    IF var1.err # "OK" THEN AssignRaise(var1.err, var1.fmt, var1.arg, env)
    ELSE IF var2.err # "OK" THEN AssignRaise(var2.err, var2.fmt, var2.arg, env)
    ELSE AssignOk(Put(Put(env, var1.name, Bool(e.logical)), var2.name, e.value))

\* lines 108-109: one target
AssignOne(var2, e, env) ==
    IF var2.err # "OK" THEN AssignRaise(var2.err, var2.fmt, var2.arg, env)
    ELSE AssignOk(Put(env, var2.name, e.value))

\* lines 103-109, e being the outcome of evaluate(comm, kwargs)
AssignFromEval(variable, comma_count, e, env) ==
    IF e.err # "OK" THEN AssignRaise(e.err, e.fmt, e.arg, env)
    ELSE IF comma_count = 1
    THEN AssignTwo(get_var_name(Split(variable, ",")[1]),
                   get_var_name(Split(variable, ",")[2]), e, env)
    ELSE AssignOne(get_var_name(variable), e, env)

\* env in the result is kwargs as the call leaves it
assign_variable(variable, comm, env, run) ==
    IF Count(variable, ",") > 1
    THEN AssignRaise(YamlSyntaxError,
                     "Max two variables allowed on left side.", <<>>, env)
    ELSE AssignFromEval(variable, Count(variable, ","),
                        evaluate(comm, env, run), env)

(***************************************************************************)
(* The inputs the calls are made with.                                     *)
(***************************************************************************)
\* a run of n blanks
W(n) == [i \in 1..n |-> " "]

Blanks == {W(n) : n \in 1..MaxWs}

N_foo == <<"f", "o", "o">>

N_a == <<"a">>

\* the names scripts use for their variables
VarNames == {N_foo, N_a}

\* $name, ${name} and "$name"
Dollar(n) == <<"$">> \o n

DollarBrace(n) == <<"$", "{">> \o n \o <<"}">>

Quoted(s) == <<"\"">> \o s \o <<"\"">>

S_ls == <<"$", "(", "l", "s", ")">>

S_ls_foo == <<"$", "(", "l", "s", " ", "$", "f", "o", "o", ")">>

S_xy == <<"x", "y">>

\* what the command runner may do with a command line
Runs == {[ok |-> TRUE, output |-> <<"x", " ", "y">>],
         [ok |-> FALSE, output |-> <<"x", " ", " ", "y", " ">>]}

PairsKV == << <<N_a, S_xy>>, <<N_foo, <<>> >> >>

\* the values kwargs holds at the start
InitValues == {Str(<<>>), Str(<<"x", " ", "y">>), Bool(FALSE), Dict(PairsKV)}

\* expressions of one of the forms evaluate recognizes, with nothing
\* before or after them
CoreExprs ==
    {Dollar(n) : n \in VarNames}
    \cup {S_defined \o Dollar(n) : n \in VarNames}
    \cup {DollarBrace(N_foo), Quoted(Dollar(N_foo)), S_ls}

\* expressions evaluate accepts: a core, with blanks around it or "not "
\* before it
GoodExprs ==
    CoreExprs
    \cup {w \o c : w \in Blanks, c \in CoreExprs}
    \cup {c \o w : w \in Blanks, c \in CoreExprs}
    \cup {S_not \o c : c \in CoreExprs}

\* variable tokens whose name is not a plain one
OddTokens == {<<"$">> \o Dollar(N_a), Dollar(N_a) \o <<"{">> \o N_a}

\* every expression string evaluate is called with
Exprs ==
    GoodExprs
    \cup {S_not \o x : x \in GoodExprs}
    \cup OddTokens \cup {S_defined \o x : x \in OddTokens}
    \cup {S_xy, S_defined \o N_a, S_not \o S_xy}

\* expressions that are not strings
Literals == {Bool(FALSE), Dict(PairsKV), List(<<>>)}

\* for-loop headers of the accepted forms, with what the documentation of
\* parse_for says they give
ForCase(w, v1, two, x, cvars, expr) ==
    [header |-> S_for \o w \o v1 \o two \o w \o S_in \o w \o x,
     control_vars |-> cvars, expr |-> expr]

CommaVar(w, v) == <<",">> \o w \o v

AcceptedCases ==
    UNION {
      {ForCase(w, Dollar(<<"i">>), <<>>, Dollar(N_foo), <<<<"i">>>>, Dollar(N_foo)),
       ForCase(w, DollarBrace(<<"i">>), <<>>, S_ls_foo, <<<<"i">>>>,
               <<"l", "s", " ", "$", "f", "o", "o">>),
       ForCase(w, Dollar(<<"k">>), CommaVar(w, Dollar(<<"v">>)), Dollar(N_foo),
               <<<<"k">>, <<"v">>>>, Dollar(N_foo)),
       ForCase(w, Dollar(<<"k">>), CommaVar(w, DollarBrace(<<"v">>)),
               S_defined \o Dollar(N_a), <<<<"k">>, <<"v">>>>,
               S_defined \o Dollar(N_a)),
       ForCase(w, Dollar(N_foo), <<>>, Dollar(N_a), <<N_foo>>, Dollar(N_a)),
       ForCase(w, Dollar(<<"i">>), <<>>, S_defined \o Dollar(N_a), <<<<"i">>>>,
               S_defined \o Dollar(N_a)),
       ForCase(w, Dollar(<<"i">>), <<>>, S_ls, <<<<"i">>>>, <<"l", "s">>),
       ForCase(w, Dollar(<<"i">>), <<>>, Dollar(N_a), <<<<"i">>>>, Dollar(N_a)),
       ForCase(w, Dollar(<<"k">>), CommaVar(w, Dollar(<<"v">>)), Dollar(N_a),
               <<<<"k">>, <<"v">>>>, Dollar(N_a)),
       ForCase(w, Dollar(<<"i">>), <<>>, S_xy, <<<<"i">>>>, S_xy)}
      : w \in Blanks}

\* headers that are not of the for-loop shape
NonLoopHeaders ==
    {S_for \o w \o Dollar(<<"i">>) \o w \o Dollar(N_foo) : w \in Blanks}
    \cup {S_for \o Dollar(<<"i">>) \o w \o S_in \o w \o Dollar(N_foo) : w \in Blanks}
    \cup {S_for \o w \o <<"i">> \o w \o S_in \o w \o Dollar(N_foo) : w \in Blanks}
    \cup {<<"w", "h", "i", "l", "e", " ", "$", "i">>}

Headers == {c.header : c \in AcceptedCases} \cup NonLoopHeaders

S_if == <<"i", "f">>

IfSections == {Section(S_if \o w \o x, "if_body") :
                 w \in Blanks,
                 x \in {Dollar(N_foo), S_not \o Dollar(N_foo),
                        S_defined \o Dollar(N_foo), S_ls, S_xy}}

ElseSections ==
    {NoSection, Section(S_else, "else_body"),
     Section(<<"e", "l", "i", "f">>, "next_body"),
     Section(S_else \o <<" ">>, "next_body")}

\* left sides of assignments
Targets ==
    OddTokens
    \cup
    {Dollar(N_foo), DollarBrace(N_a), Quoted(Dollar(N_a)),
     Dollar(N_a) \o <<",">> \o Dollar(N_foo),
     Dollar(N_foo) \o <<",", " ">> \o DollarBrace(N_a),
     Dollar(N_a) \o <<",">> \o Dollar(N_a),
     N_a,
     Dollar(N_a) \o <<",">> \o N_foo,
     Dollar(N_a) \o <<",">> \o Dollar(N_foo) \o <<",">> \o Dollar(N_a)}

\* right sides of assignments
Comms ==
    {Str(x) : x \in {Dollar(N_foo), Dollar(N_a), S_defined \o Dollar(N_foo),
                     S_not \o Dollar(N_a), S_ls, S_xy}}
    \cup {Dict(PairsKV)}

(***************************************************************************)
(* The state machine: one action per function of the module.  The core is  *)
(* single-threaded and synchronous: a call is made when no call is being   *)
(* observed, and the caller takes its outcome before it makes the next.    *)
(***************************************************************************)
Idle == call.op = "none"

Init ==
    /\ kwargs \in UNION {[D -> InitValues] : D \in SUBSET VarNames}
    /\ call = [op |-> "none"]
    /\ ret = [err |-> "OK"]

GetVarName ==
    /\ Idle
    /\ \E token \in {Dollar(N_foo), DollarBrace(N_foo), Quoted(DollarBrace(N_a)),
                  <<" ">> \o Dollar(N_a) \o <<" ">>, <<"$">> \o Dollar(N_a),
                  Dollar(N_a) \o <<"{">> \o N_a, N_a, <<>>} :
        /\ call' = [op |-> "get_var_name", dolar_variable |-> token]
        /\ ret' = get_var_name(token)
        /\ UNCHANGED kwargs

Evaluate ==
    /\ Idle
    /\ \E expression \in {Str(x) : x \in Exprs} \cup Literals, run \in Runs :
        /\ call' = [op |-> "evaluate", expression |-> expression, run |-> run]
        /\ ret' = evaluate(expression, kwargs, run)
        /\ UNCHANGED kwargs

ParseFor ==
    /\ Idle
    /\ \E control_line \in Headers :
        /\ call' = [op |-> "parse_for", control_line |-> control_line]
        /\ ret' = parse_for(control_line)
        /\ UNCHANGED kwargs

GetForControlVarAndEvalExpr ==
    /\ Idle
    /\ \E comm_type \in Headers, run \in Runs :
        /\ call' = [op |-> "get_for_control_var_and_eval_expr",
                    comm_type |-> comm_type, run |-> run]
        /\ ret' = get_for_control_var_and_eval_expr(comm_type, kwargs, run)
        /\ UNCHANGED kwargs

GetSectionFromCondition ==
    /\ Idle
    /\ \E if_section \in IfSections, else_section \in ElseSections, run \in Runs :
        /\ call' = [op |-> "get_section_from_condition", if_section |-> if_section,
                    else_section |-> else_section, run |-> run]
        /\ ret' = get_section_from_condition(if_section, else_section, kwargs, run)
        /\ UNCHANGED kwargs

AssignVariable ==
    /\ Idle
    /\ \E variable \in Targets, comm \in Comms, run \in Runs :
        LET r == assign_variable(variable, comm, kwargs, run)
        IN  /\ Cardinality(DOMAIN r.env) <= MaxKeys
            /\ call' = [op |-> "assign_variable", variable |-> variable,
                        comm |-> comm, run |-> run]
            /\ ret' = [err |-> r.err, fmt |-> r.fmt, arg |-> r.arg, typ |-> r.typ]
            /\ kwargs' = r.env

\* the caller has taken the outcome of the last call
Return ==
    /\ ~Idle
    /\ call' = [op |-> "none"]
    /\ ret' = [err |-> "OK"]
    /\ UNCHANGED kwargs

Next ==
    \/ GetVarName
    \/ Evaluate
    \/ ParseFor
    \/ GetForControlVarAndEvalExpr
    \/ GetSectionFromCondition
    \/ AssignVariable
    \/ Return

Spec == Init /\ [][Next]_vars

(***************************************************************************)
(* Properties.                                                             *)
(***************************************************************************)
IsEvaluateOf(x) ==
    call.op = "evaluate" /\ call.expression.t = "str" /\ call.expression.s = x

\* the names a lookup can be about: the plain ones and every key of kwargs
LookupNames == VarNames \cup DOMAIN kwargs

Accepted(X) == evaluate(Str(X), kwargs, call.run).err = "OK"

\* the outcome of evaluate("not "+X) is that of evaluate(X), negated
NegationOf(X) ==
    /\ ret.err = "OK"
    /\ ret.value = evaluate(Str(X), kwargs, call.run).value
    /\ ret.logical = ~evaluate(Str(X), kwargs, call.run).logical

\* C2 as claimed: for every expression X that evaluate accepts, also one
\* with leading whitespace or one that begins with "not ",
\* evaluate("not "+X, E) gives the value of evaluate(X, E) and the negation
\* of its logical result.
C2_NotNegatesEveryAccepted ==
    \A X \in GoodExprs :
        (IsEvaluateOf(S_not \o X) /\ Accepted(X)) => NegationOf(X)

\* X begins with one of the recognized forms: no blank and no "not " first
BeginsWithForm(X) == X # <<>> /\ ~IsSpace(X[1]) /\ ~StartsWith(X, S_not)

\* C2 as amended: for every accepted X that begins with a recognized form,
\* evaluate("not "+X, E) gives the value of evaluate(X, E) and the negation
\* of its logical result; for an accepted X that begins with a blank or with
\* "not ", evaluate("not "+X, E) fails with a Syntax Error that carries the
\* whole expression.
C2_NotNegates ==
    \A X \in GoodExprs :
        (IsEvaluateOf(S_not \o X) /\ Accepted(X)) =>
            IF BeginsWithForm(X)
            THEN NegationOf(X)
            ELSE /\ ret.err = YamlSyntaxError
                 /\ ret.arg = S_not \o X

\* "not $foo" with foo bound to a truthy value: logical false, value kept
C2_Witness ==
    /\ IsEvaluateOf(S_not \o Dollar(N_foo))
    /\ N_foo \in DOMAIN kwargs /\ Truthy(kwargs[N_foo])
    /\ ret.err = "OK" /\ ~ret.logical /\ ret.value = kwargs[N_foo]

\* C3: evaluate("defined $"+n, E) gives logical=true exactly when n is a key
\* of E, whatever the truthiness of E[n], and value=E[n] when n is present
\* (also when E[n] is falsy), "" when it is absent.
C3_Defined ==
    \A n \in LookupNames :
        IsEvaluateOf(S_defined \o Dollar(n)) =>
            /\ ret.err = "OK"
            /\ ret.logical <=> n \in DOMAIN kwargs
            /\ ret.value = IF n \in DOMAIN kwargs THEN kwargs[n] ELSE Str(<<>>)

\* "defined $a" while a is bound to False: logical true, value False
C3_Witness ==
    /\ IsEvaluateOf(S_defined \o Dollar(N_a))
    /\ N_a \in DOMAIN kwargs /\ kwargs[N_a] = Bool(FALSE)
    /\ ret.err = "OK" /\ ret.logical /\ ret.value = Bool(FALSE)

\* the step is a two-target assignment to the distinct names a and b
TwoTargetStep(a, b) ==
    /\ call'.op = "assign_variable"
    /\ Count(call'.variable, ",") = 1
    /\ get_var_name(Split(call'.variable, ",")[1]) =
           [err |-> "OK", fmt |-> "", arg |-> <<>>, typ |-> "", name |-> a]
    /\ get_var_name(Split(call'.variable, ",")[2]) =
           [err |-> "OK", fmt |-> "", arg |-> <<>>, typ |-> "", name |-> b]
    /\ a # b

\* C4: when X evaluates to (l, v), a two-target assignment to a and b
\* succeeds (also when l is false), and afterwards evaluate("$a", E) has
\* logical result l and evaluate("$b", E) returns the value v exactly.
C4_RoundTrip ==
    [][\A a \in VarNames, b \in VarNames :
         (TwoTargetStep(a, b) /\ evaluate(call'.comm, kwargs, call'.run).err = "OK") =>
            /\ ret'.err = "OK"
            /\ evaluate(Str(Dollar(a)), kwargs', call'.run).logical =
                   evaluate(call'.comm, kwargs, call'.run).logical
            /\ evaluate(Str(Dollar(b)), kwargs', call'.run).value =
                   evaluate(call'.comm, kwargs, call'.run).value]_vars

\* the condition of an if-section: the header without "if", stripped
Condition(if_section) == Strip(From(if_section.head, 3))

\* C5: skip is true exactly when a next section exists and its keyword is
\* exactly "else"; the result is (0, skip, if-body) when the condition's
\* logical result is true, (1, true, else-body) when it is false and skip is
\* true, (1, false, absent) when it is false and skip is false.  Neither the
\* condition's value nor a next section that is not "else" chooses the body.
C5_Condition ==
    (call.op = "get_section_from_condition"
       /\ evaluate(Str(Condition(call.if_section)), kwargs, call.run).err = "OK") =>
        /\ ret.err = "OK"
        /\ ret.skip <=> (call.else_section.some /\ call.else_section.head = S_else)
        /\ ret.idx = IF evaluate(Str(Condition(call.if_section)), kwargs,
                                 call.run).logical THEN 0 ELSE 1
        /\ ret.section =
             IF ret.idx = 0 THEN [some |-> TRUE, body |-> call.if_section.body]
             ELSE IF ret.skip THEN [some |-> TRUE, body |-> call.else_section.body]
             ELSE [some |-> FALSE, body |-> ""]

\* a false condition followed by a real else: the else body is chosen
C5_Witness ==
    /\ call.op = "get_section_from_condition"
    /\ call.else_section.some /\ call.else_section.head = S_else
    /\ ret.err = "OK" /\ ret.idx = 1 /\ ret.skip
    /\ ret.section = [some |-> TRUE, body |-> "else_body"]

\* the characters of the sequences of ts, in order
RECURSIVE Flatten(_)
Flatten(ts) == IF ts = <<>> THEN <<>> ELSE Head(ts) \o Flatten(Tail(ts))

NotBlank(c) == ~IsSpace(c)

\* ts are the whitespace-separated tokens of s, in order: none is empty or
\* holds a blank, there is one per run of non-blanks of s, and together
\* they are s without its blanks
TokensOf(ts, s) ==
    /\ \A i \in 1..Len(ts) : ts[i] # <<>> /\ \A j \in 1..Len(ts[i]) : ~IsSpace(ts[i][j])
    /\ Len(ts) = Cardinality({i \in 1..Len(s) :
                                ~IsSpace(s[i]) /\ (i = 1 \/ IsSpace(s[i - 1]))})
    /\ Flatten(ts) = SelectSeq(s, NotBlank)

\* the loop expression of the call evaluated, when its header parses
LoopValue == evaluate(Str(parse_for(call.comm_type).expr), kwargs, call.run)

\* C6: the items depend only on the number of control variables and on the
\* value of the loop expression, never on its logical result: two variables
\* and a mapping give the mapping's pairs in order; two variables and any
\* other value fail with a Syntax Error; one variable and a text give its
\* whitespace-separated tokens in order ("x y" gives ["x", "y"]); one
\* variable and any other value give no items and no error.
C6_Iterable ==
    (call.op = "get_for_control_var_and_eval_expr"
       /\ parse_for(call.comm_type).err = "OK" /\ LoopValue.err = "OK") =>
        IF Len(parse_for(call.comm_type).control_vars) = 2
        THEN IF LoopValue.value.t = "dict"
             THEN /\ ret.err = "OK"
                  /\ ret.control_vars = parse_for(call.comm_type).control_vars
                  /\ ret.pairs = LoopValue.value.d /\ ret.tokens = <<>>
             ELSE ret.err = YamlSyntaxError /\ ret.typ = LoopValue.value.t
        ELSE /\ ret.err = "OK"
             /\ ret.control_vars = parse_for(call.comm_type).control_vars
             /\ ret.pairs = <<>>
             /\ IF LoopValue.value.t = "str"
                THEN /\ TokensOf(ret.tokens, LoopValue.value.s)
                     /\ LoopValue.value.s = <<"x", " ", "y">> =>
                            ret.tokens = << <<"x">>, <<"y">> >>
                ELSE ret.tokens = <<>>

\* one control variable over the output of a command that failed
C6_Witness ==
    /\ call.op = "get_for_control_var_and_eval_expr"
    /\ ~call.run.ok
    /\ ret.err = "OK" /\ ret.control_vars = << <<"i">> >>
    /\ ret.tokens = << <<"x">>, <<"y">> >>

\* C7: parse_for on every header of an accepted form, with variable names
\* of any length, returns the normalized control variable names in order
\* and the iterable expression, "ls $foo" for "for ${i} in $(ls $foo)".
C7_ParseFor ==
    \A c \in AcceptedCases :
        (call.op = "parse_for" /\ call.control_line = c.header) =>
            /\ ret.err = "OK"
            /\ ret.control_vars = c.control_vars
            /\ ret.expr = c.expr

\* C8: for every header that is not of the for-loop shape parse_for fails
\* with a Syntax Error whose message contains the header.
C8_MalformedHeader ==
    (call.op = "parse_for" /\ call.control_line \in NonLoopHeaders) =>
        ret.err = YamlSyntaxError /\ ret.arg = call.control_line

\* C9: a Syntax Error raised while the header is parsed or the loop
\* expression is evaluated reaches the caller unchanged: the same kind,
\* with its original message.
C9_SyntaxErrorPropagates ==
    call.op = "get_for_control_var_and_eval_expr" =>
        /\ parse_for(call.comm_type).err = YamlSyntaxError =>
              /\ ret.err = YamlSyntaxError
              /\ ret.fmt = parse_for(call.comm_type).fmt
              /\ ret.arg = parse_for(call.comm_type).arg
        /\ (parse_for(call.comm_type).err = "OK" /\ LoopValue.err = YamlSyntaxError) =>
              /\ ret.err = YamlSyntaxError
              /\ ret.fmt = LoopValue.fmt
              /\ ret.arg = LoopValue.arg

\* k holds none of "$", "{", "}"
Bare(k) == \A i \in 1..Len(k) : k[i] \notin {"$", "{", "}"}

\* k neither begins nor ends with a brace
NoOuterBrace(k) == k = <<>> \/ (k[1] \notin BraceChars /\ k[Len(k)] \notin BraceChars)

\* the keys the step added or rebound
Changed == {k \in DOMAIN kwargs' : k \notin DOMAIN kwargs \/ kwargs'[k] # kwargs[k]}

\* only assign_variable, and only when it succeeds, changes kwargs
OnlyAssignBinds ==
    /\ DOMAIN kwargs \subseteq DOMAIN kwargs'
    /\ (call'.op # "assign_variable" \/ ret'.err # "OK") => kwargs' = kwargs

\* C10 as claimed: whatever the target strings, every key of the
\* environment is a bare name with no "$", "{" or "}", and evaluate, the
\* Condition Resolver and resolve_iterable never add, remove or rebind one.
C10_KeysBare ==
    /\ [](\A k \in DOMAIN kwargs : Bare(k))
    /\ [][OnlyAssignBinds]_vars

\* t is $name or ${name}, possibly with blanks around it, for a plain name
PlainToken(t) ==
    \E n \in VarNames : Strip(t) \in {Dollar(n), DollarBrace(n)}

\* C10 as amended: every key is a name as Variable Naming returns it, with
\* no "{" or "}" at either end; a key bound through a target of the form
\* $name or ${name} holds none of "$", "{", "}", while a target such as
\* "$$a" or "$a{a" is accepted and binds the key "$a" or "a{a".  A failed
\* assign, evaluate, the Condition Resolver and resolve_iterable never
\* add, remove or rebind a key.
C10_KeysNormalized ==
    /\ [](\A k \in DOMAIN kwargs : NoOuterBrace(k))
    /\ [][/\ OnlyAssignBinds
          /\ (call'.op = "assign_variable" /\ ret'.err = "OK") =>
                /\ Changed \subseteq
                     {get_var_name(t).name : t \in
                        {Split(call'.variable, ",")[i] :
                           i \in 1..Len(Split(call'.variable, ","))}}
                /\ (\A i \in 1..Len(Split(call'.variable, ",")) :
                       PlainToken(Split(call'.variable, ",")[i]))
                     => \A k \in Changed : Bare(k) /\ k \in VarNames]_vars

\* "${a}" was assigned to and a is a key; "$$a" was and "$a" is a key
C10_Witness ==
    /\ call.op = "assign_variable" /\ ret.err = "OK"
    /\ call.variable = DollarBrace(N_a)
    /\ N_a \in DOMAIN kwargs
    /\ Dollar(N_a) \in DOMAIN kwargs

====
